---------------------------- MODULE Spec2Model ----------------------------
(***************************************************************************)
(* A model of the aws-opensearch-connector repository:                     *)
(*   - utils.validate_endpoint, auth.BasicAuthProvider                     *)
(*   - client.OpenSearchClient (exception translation around the library)  *)
(*   - latest.py: the FastAPI search/export front end and its helpers      *)
(*                                                                         *)
(* Python strings the code inspects (dates, endpoints, document keys) are  *)
(* sequences of one-character strings.  Epoch values exceed TLC's 32-bit   *)
(* integers, so a number n is held as the pair [d, r] with                 *)
(* n = d * 86400000 + r and 0 <= r < 86400000.                             *)
(***************************************************************************)
EXTENDS Integers, Sequences, FiniteSets, TLC

VARIABLES
    op,      \* name of the operation that ran last
    arg,     \* its inputs (for the web handlers: the request and the engine's behaviour)
    ret,     \* what it returned or raised
    calls,   \* the calls it made into the underlying opensearch-py library, in order
    client   \* the OpenSearchClient object, if one was constructed

vars == <<op, arg, ret, calls, client>>

(***************************************************************************)
(* Bounds of the model                                                     *)
(***************************************************************************)
MaxTokens == 4      \* endpoint strings are built from at most this many tokens
MaxPage == 2        \* page numbers requested from /search
MaxBulk == 1        \* documents passed to bulk_index

(***************************************************************************)
(* Strings                                                                 *)
(***************************************************************************)
DigitChars == <<"0", "1", "2", "3", "4", "5", "6", "7", "8", "9">>

IsDigit(c) == \E i \in 1..10 : DigitChars[i] = c

DigitVal(c) == (CHOOSE i \in 1..10 : DigitChars[i] = c) - 1

StartsWith(s, p) == Len(s) >= Len(p) /\ SubSeq(s, 1, Len(p)) = p

EndsWith(s, p) == Len(s) >= Len(p) /\ SubSeq(s, Len(s) - Len(p) + 1, Len(s)) = p

UpperLetters ==
    <<"A", "B", "C", "D", "E", "F", "G", "H", "I", "J", "K", "L", "M",
      "N", "O", "P", "Q", "R", "S", "T", "U", "V", "W", "X", "Y", "Z">>

LowerLetters ==
    <<"a", "b", "c", "d", "e", "f", "g", "h", "i", "j", "k", "l", "m",
      "n", "o", "p", "q", "r", "s", "t", "u", "v", "w", "x", "y", "z">>

IndexIn(seq, c) == CHOOSE i \in 1..Len(seq) : seq[i] = c

IsUpper(c) == \E i \in 1..26 : UpperLetters[i] = c
IsLower(c) == \E i \in 1..26 : LowerLetters[i] = c

\* Code points of the characters the model's strings use (Python compares
\* strings by code point).
Ord(c) ==
    CASE IsUpper(c) -> 64 + IndexIn(UpperLetters, c)
      [] IsLower(c) -> 96 + IndexIn(LowerLetters, c)
      [] IsDigit(c) -> 48 + DigitVal(c)
      [] c = " " -> 32 [] c = "'" -> 39 [] c = "+" -> 43 [] c = "," -> 44
      [] c = "-" -> 45 [] c = "." -> 46 [] c = "/" -> 47 [] c = ":" -> 58
      [] c = "[" -> 91 [] c = "]" -> 93 [] c = "_" -> 95
      [] c = "{" -> 123 [] c = "}" -> 125

RECURSIVE StrLess(_, _)
\* Python's s < t on strings: lexicographic by code point.
StrLess(s, t) ==
    IF t = <<>> THEN FALSE
    ELSE IF s = <<>> THEN TRUE
    ELSE IF Ord(Head(s)) # Ord(Head(t)) THEN Ord(Head(s)) < Ord(Head(t))
    ELSE StrLess(Tail(s), Tail(t))

(***************************************************************************)
(* Numbers: n = d * DayMs + r                                              *)
(***************************************************************************)
DayMs == 86400000

Big(d, r) == [d |-> d, r |-> r]

BigLess(a, b) == a.d < b.d \/ (a.d = b.d /\ a.r < b.r)

\* a * 10 + digit
BigShift(a, digit) ==
    LET low == a.r * 10 + digit
    IN  Big(a.d * 10 + low \div DayMs, low % DayMs)

RECURSIVE DecFrom(_, _)
DecFrom(acc, digits) ==
    IF digits = <<>> THEN acc
    ELSE DecFrom(BigShift(acc, Head(digits)), Tail(digits))

\* The number a sequence of decimal digits denotes, e.g.
\* Dec(<<8,6,4,0,0,0,0,1>>) = Big(1, 1).
Dec(digits) == DecFrom(Big(0, 0), digits)

RECURSIVE BigDigits(_)
\* Decimal digit characters of a number n >= 0, most significant first.
BigDigits(a) ==
    LET dq == a.d \div 10
        low == (a.d % 10) * DayMs + a.r
        q == Big(dq, low \div 10)
        last == <<DigitChars[(low % 10) + 1]>>
    IN  IF q = Big(0, 0) THEN last ELSE BigDigits(q) \o last

\* a - 1
BigPred(a) == IF a.r = 0 THEN Big(a.d - 1, DayMs - 1) ELSE Big(a.d, a.r - 1)

BigNeg(a) == IF a.r = 0 THEN Big(-a.d, 0) ELSE Big(-a.d - 1, DayMs - a.r)

\* Python's str(n) for an integer n.
IntStr(a) == IF a.d < 0 THEN <<"-">> \o BigDigits(BigNeg(a)) ELSE BigDigits(a)

(***************************************************************************)
(* Calendar arithmetic of Python's datetime (proleptic Gregorian)          *)
(***************************************************************************)
IsLeap(y) == y % 4 = 0 /\ (y % 100 # 0 \/ y % 400 = 0)

DaysInMonth(y, m) ==
    IF m = 2 THEN (IF IsLeap(y) THEN 29 ELSE 28)
    ELSE IF m \in {4, 6, 9, 11} THEN 30 ELSE 31

RECURSIVE DaysBeforeMonth(_, _)
DaysBeforeMonth(y, m) ==
    IF m = 1 THEN 0 ELSE DaysBeforeMonth(y, m - 1) + DaysInMonth(y, m - 1)

\* Days from 1970-01-01 to y-m-d (date.toordinal() minus the epoch's ordinal).
EpochOrdinal == 719163

DaysFromCivil(y, m, d) ==
    LET p == y - 1
    IN  p * 365 + p \div 4 - p \div 100 + p \div 400
            + DaysBeforeMonth(y, m) + d - EpochOrdinal

\* The date of day number n (days since 1970-01-01), or year 0 / 10000 and
\* beyond when n lies outside datetime's range.
CivilFromDays(n) ==
    LET z == n + 719468
        era == z \div 146097
        doe == z - era * 146097
        yoe == (doe - doe \div 1460 + doe \div 36524 - doe \div 146096) \div 365
        doy == doe - (365 * yoe + yoe \div 4 - yoe \div 100)
        mp == (5 * doy + 2) \div 153
        m == IF mp < 10 THEN mp + 3 ELSE mp - 9
    IN  [y |-> yoe + era * 400 + (IF m <= 2 THEN 1 ELSE 0),
         m |-> m,
         d |-> doy - (153 * mp + 2) \div 5 + 1]

MINYEAR == 1
MAXYEAR == 9999

(***************************************************************************)
(* datetime.strptime(date_str, '%Y-%m-%d')                                 *)
(*   %Y  \d\d\d\d      %m  1[0-2]|0[1-9]|[1-9]                             *)
(*   %d  3[01]|[12]\d|0[1-9]|[1-9]| [1-9]                                  *)
(* followed by the range checks of the datetime constructor.  The result   *)
(* is [ok |-> FALSE] where Python raises ValueError.                       *)
(***************************************************************************)
MonthText(t) ==
    \/ Len(t) = 1 /\ IsDigit(t[1]) /\ t[1] # "0"
    \/ Len(t) = 2 /\ t[1] = "1" /\ t[2] \in {"0", "1", "2"}
    \/ Len(t) = 2 /\ t[1] = "0" /\ IsDigit(t[2]) /\ t[2] # "0"

DayText(t) ==
    \/ Len(t) = 1 /\ IsDigit(t[1]) /\ t[1] # "0"
    \/ Len(t) = 2 /\ t[1] = "3" /\ t[2] \in {"0", "1"}
    \/ Len(t) = 2 /\ t[1] \in {"1", "2"} /\ IsDigit(t[2])
    \/ Len(t) = 2 /\ t[1] \in {"0", " "} /\ IsDigit(t[2]) /\ t[2] # "0"

RECURSIVE NumVal(_)
\* Value of a short run of digits; a leading blank counts as nothing.
NumVal(t) ==
    IF t = <<>> THEN 0
    ELSE IF t[Len(t)] = " " THEN 0
    ELSE NumVal(SubSeq(t, 1, Len(t) - 1)) * 10 + DigitVal(t[Len(t)])

strptime(s) ==
    LET dashes == {i \in 6..Len(s) : s[i] = "-"}
    IN  IF /\ Len(s) >= 8
           /\ \A i \in 1..4 : IsDigit(s[i])
           /\ s[5] = "-"
           /\ dashes # {}
        THEN LET j == CHOOSE i \in dashes : \A k \in dashes : i <= k
                 mt == SubSeq(s, 6, j - 1)
                 dt == SubSeq(s, j + 1, Len(s))
             IN  IF MonthText(mt) /\ DayText(dt)
                 THEN LET y == NumVal(SubSeq(s, 1, 4))
                          m == NumVal(mt)
                          d == NumVal(dt)
                      IN  IF y >= MINYEAR /\ d <= DaysInMonth(y, m)
                          THEN [ok |-> TRUE, y |-> y, m |-> m, d |-> d]
                          ELSE [ok |-> FALSE]
                 ELSE [ok |-> FALSE]
        ELSE [ok |-> FALSE]

(***************************************************************************)
(* latest.py: convert_date_to_epoch_start / convert_date_to_epoch_end      *)
(* Each returns [raised |-> FALSE, value |-> n] or the HTTPException it    *)
(* raises.                                                                 *)
(***************************************************************************)
HTTPException(status, detail) ==
    [raised |-> TRUE, exc |-> "HTTPException", status |-> status, detail |-> detail]

Returned(v) == [raised |-> FALSE, value |-> v]

InvalidDate(date_str) ==
    HTTPException(400, [msg |-> "Invalid date format: {}. Expected YYYY-MM-DD",
                        value |-> date_str])

convert_date_to_epoch_start(date_str) ==
    LET Convert(dt) ==
            IF dt.ok
            THEN Returned(Big(DaysFromCivil(dt.y, dt.m, dt.d), 0))
            ELSE InvalidDate(date_str)
    IN  Convert(strptime(date_str))

\* First day number whose 23:59:59 lies at or above 2^34 seconds: there a
\* double has a spacing of 2^-18 s, and the .999999 of timestamp() rounds up
\* to the next whole second.
DoubleCarryDay == 198841

\* int(dt_utc.timestamp() * 1000) for 23:59:59.999999 of day number n.
\* int() truncates toward zero, so a negative timestamp loses its fraction
\* upward.
EndOfDayMs(n) ==
    IF n < 0 \/ n >= DoubleCarryDay THEN Big(n + 1, 0) ELSE Big(n, DayMs - 1)

convert_date_to_epoch_end(date_str) ==
    LET Convert(dt) ==
            IF dt.ok
            THEN Returned(EndOfDayMs(DaysFromCivil(dt.y, dt.m, dt.d)))
            ELSE InvalidDate(date_str)
    IN  Convert(strptime(date_str))

(***************************************************************************)
(* JSON values of a source document                                        *)
(*   None, str, int (held as Big), a float too large for time_t (1e30),    *)
(*   list, and dict (its items in insertion order, keys unique).           *)
(***************************************************************************)
Null == [k |-> "null"]
Text(s) == [k |-> "text", s |-> s]
Num(n) == [k |-> "num", n |-> n]
Huge == [k |-> "huge"]
List(items) == [k |-> "list", items |-> items]
Item(key, val) == [key |-> key, val |-> val]
Dict(items) == [k |-> "dict", items |-> items]

IsDict(v) == v.k = "dict"

\* dict.keys()
Keys(d) == {d.items[i].key : i \in 1..Len(d.items)}

\* dict.get(key, default)
DictGet(d, key, default) ==
    IF key \in Keys(d)
    THEN d.items[CHOOSE i \in 1..Len(d.items) : d.items[i].key = key].val
    ELSE default

RECURSIVE DictFromItems(_, _)
\* dict(items) appended to acc: a repeated key keeps its first position and
\* takes the last value.
DictFromItems(acc, items) ==
    IF items = <<>> THEN acc
    ELSE LET it == Head(items)
             next == IF \E i \in 1..Len(acc) : acc[i].key = it.key
                     THEN [i \in 1..Len(acc) |->
                              IF acc[i].key = it.key THEN it ELSE acc[i]]
                     ELSE Append(acc, it)
         IN  DictFromItems(next, Tail(items))

RECURSIVE Join(_, _)
\* sep.join(parts)
Join(parts, sep) ==
    IF parts = <<>> THEN <<>>
    ELSE IF Len(parts) = 1 THEN parts[1]
    ELSE parts[1] \o sep \o Join(Tail(parts), sep)

RECURSIVE PyRepr(_)
\* repr(v), as str() of a list or dict renders its elements.
PyRepr(v) ==
    CASE v.k = "null" -> <<"N", "o", "n", "e">>
      [] v.k = "text" -> <<"'">> \o v.s \o <<"'">>
      [] v.k = "num" -> IntStr(v.n)
      [] v.k = "huge" -> <<"1", "e", "+", "3", "0">>
      [] v.k = "list" ->
            <<"[">> \o Join([i \in 1..Len(v.items) |-> PyRepr(v.items[i])],
                            <<",", " ">>) \o <<"]">>
      [] v.k = "dict" ->
            <<"{">> \o Join([i \in 1..Len(v.items) |->
                                <<"'">> \o v.items[i].key \o <<"'", ":", " ">>
                                    \o PyRepr(v.items[i].val)],
                            <<",", " ">>) \o <<"}">>

\* str(v)
PyStr(v) == IF v.k = "text" THEN v.s ELSE PyRepr(v)

(***************************************************************************)
(* latest.py: format_epoch_to_date                                         *)
(***************************************************************************)
RECURSIVE Strip(_)
\* str.strip() of blanks
Strip(s) ==
    IF s # <<>> /\ Head(s) = " " THEN Strip(Tail(s))
    ELSE IF s # <<>> /\ s[Len(s)] = " " THEN Strip(SubSeq(s, 1, Len(s) - 1))
    ELSE s

\* float(epoch_value): a finite number, inf, nan, or the exception raised.
\* Texts are digit runs (optionally signed), "inf", "nan" or non-numeric.
PyFloat(v) ==
    CASE v.k = "num" -> [t |-> "fin", n |-> v.n]
      [] v.k = "huge" -> [t |-> "huge"]
      [] v.k = "text" ->
            LET s == Strip(v.s)
                body == IF s # <<>> /\ Head(s) = "-" THEN Tail(s) ELSE s
            IN  IF body # <<>> /\ \A i \in 1..Len(body) : IsDigit(body[i])
                THEN LET n == Dec([i \in 1..Len(body) |-> DigitVal(body[i])])
                     IN  [t |-> "fin", n |-> IF s = body THEN n ELSE BigNeg(n)]
                ELSE IF s = <<"i", "n", "f">> THEN [t |-> "inf"]
                ELSE IF s = <<"n", "a", "n">> THEN [t |-> "nan"]
                ELSE [t |-> "ValueError"]
      [] OTHER -> [t |-> "TypeError"]

\* 10000000000, the magnitude that tells milliseconds from seconds
MsThreshold == Dec(<<1, 0, 0, 0, 0, 0, 0, 0, 0, 0, 0>>)

\* The seconds gmtime() can still convert (64-bit glibc); beyond them
\* utcfromtimestamp raises OSError.
GmtimeMin == BigNeg(Dec(<<6, 7, 7, 6, 8, 0, 4, 0, 6, 0, 9, 7, 4, 0, 8, 0, 0>>))

MonthAbbr ==
    << <<"J", "a", "n">>, <<"F", "e", "b">>, <<"M", "a", "r">>,
       <<"A", "p", "r">>, <<"M", "a", "y">>, <<"J", "u", "n">>,
       <<"J", "u", "l">>, <<"A", "u", "g">>, <<"S", "e", "p">>,
       <<"O", "c", "t">>, <<"N", "o", "v">>, <<"D", "e", "c">> >>

UpperChar(c) == IF IsLower(c) THEN UpperLetters[IndexIn(LowerLetters, c)] ELSE c

\* str.upper()
Upper(s) == [i \in 1..Len(s) |-> UpperChar(s[i])]

\* dt.strftime('%d-%b-%Y UTC'): %d is two digits, %Y is unpadded (glibc).
strftime(dt) ==
    <<DigitChars[(dt.d \div 10) + 1], DigitChars[(dt.d % 10) + 1], "-">>
        \o MonthAbbr[dt.m] \o <<"-">> \o IntStr(Big(0, dt.y))
        \o <<" ", "U", "T", "C">>

\* The day number datetime.utcfromtimestamp sees: the value is divided by
\* 1000 when it exceeds the threshold.
\* Seconds this far below zero lie before year 1 whatever their exact day.
TimestampDay(n) ==
    IF BigLess(MsThreshold, n) THEN n.d
    ELSE IF n.d < -1000 THEN -1000000
    ELSE n.d * 1000 + (n.r \div 86400)

Raised(exc) == [raised |-> TRUE, exc |-> exc]

format_epoch_to_date(epoch_value) ==
    LET \* except (ValueError, TypeError): return str(epoch_value)
        Fallback == Returned(PyStr(epoch_value))
        Render(dt) ==
            IF dt.y < MINYEAR \/ dt.y > MAXYEAR
            THEN Fallback                          \* ValueError: year out of range
            ELSE Returned(Upper(strftime(dt)))
        Format(f) ==
            CASE f.t \in {"ValueError", "TypeError"} -> Fallback
              [] f.t = "nan" -> Fallback           \* ValueError from utcfromtimestamp
              [] f.t \in {"inf", "huge"} -> Raised("OverflowError")
              [] f.t = "fin" ->
                    IF BigLess(f.n, GmtimeMin) THEN Raised("OSError")
                    ELSE Render(CivilFromDays(TimestampDay(f.n)))
    IN  Format(PyFloat(epoch_value))

(***************************************************************************)
(* latest.py: get_nested_value, flatten_dict                               *)
(***************************************************************************)
RECURSIVE SplitFrom(_, _, _)
SplitFrom(s, sep, cur) ==
    IF s = <<>> THEN <<cur>>
    ELSE IF Head(s) = sep THEN <<cur>> \o SplitFrom(Tail(s), sep, <<>>)
    ELSE SplitFrom(Tail(s), sep, Append(cur, Head(s)))

\* str.split(sep) for a one-character separator
Split(s, sep) == SplitFrom(s, sep, <<>>)

EmptyStr == Text(<<>>)

RECURSIVE Descend(_, _)
Descend(value, keys) ==
    IF keys = <<>> THEN (IF value = Null THEN EmptyStr ELSE value)
    ELSE IF IsDict(value)
         THEN Descend(DictGet(value, Head(keys), EmptyStr), Tail(keys))
         ELSE EmptyStr

get_nested_value(data, key) == Descend(data, Split(key, "."))

RECURSIVE FlattenItems(_, _, _)
\* The items list flatten_dict builds for the dict items `its`.
FlattenItems(its, parent_key, sep) ==
    IF its = <<>> THEN <<>>
    ELSE LET it == Head(its)
             new_key == IF parent_key # <<>> THEN parent_key \o sep \o it.key
                        ELSE it.key
             here == IF it.val.k = "dict"
                     THEN DictFromItems(<<>>,
                              FlattenItems(it.val.items, new_key, sep))
                     ELSE IF it.val.k = "list"
                     THEN <<Item(new_key, Text(PyStr(it.val)))>>
                     ELSE <<Item(new_key, it.val)>>
         IN  here \o FlattenItems(Tail(its), parent_key, sep)

flatten_dict(d, parent_key, sep) ==
    Dict(DictFromItems(<<>>, FlattenItems(d.items, parent_key, sep)))

(***************************************************************************)
(* utils.py: validate_endpoint                                             *)
(***************************************************************************)
Http == <<"h", "t", "t", "p", ":", "/", "/">>
Https == <<"h", "t", "t", "p", "s", ":", "/", "/">>
Port443 == <<":", "4", "4", "3">>

Drop(s, n) == SubSeq(s, n + 1, Len(s))
DropLast(s, n) == SubSeq(s, 1, Len(s) - n)

\* re.sub(r'^https?://', '', endpoint)
StripScheme(endpoint) ==
    IF StartsWith(endpoint, Https) THEN Drop(endpoint, Len(Https))
    ELSE IF StartsWith(endpoint, Http) THEN Drop(endpoint, Len(Http))
    ELSE endpoint

RECURSIVE RStripSlash(_)
\* endpoint.rstrip('/')
RStripSlash(endpoint) ==
    IF EndsWith(endpoint, <<"/">>) THEN RStripSlash(DropLast(endpoint, 1))
    ELSE endpoint

\* re.sub(r':443$', '', endpoint)
StripPort(endpoint) ==
    IF EndsWith(endpoint, Port443) THEN DropLast(endpoint, Len(Port443))
    ELSE endpoint

\* A slip in the order of the steps: the port is removed before the slash.
validate_endpoint_port_first(endpoint) ==
    RStripSlash(StripPort(StripScheme(endpoint)))

validate_endpoint(endpoint) == StripPort(RStripSlash(StripScheme(endpoint)))

(***************************************************************************)
(* auth.py: BasicAuthProvider                                              *)
(***************************************************************************)
BasicAuthProvider(username, password) ==
    IF username = <<>> \/ password = <<>>
    THEN Raised("OpenSearchAuthError")
    ELSE Returned(<<username, password>>)

(***************************************************************************)
(* latest.py: SearchParams, build_opensearch_query                         *)
(***************************************************************************)
DefaultPageSize == 100

SearchParams(region, business_area, data_source, from, to, page, page_size) ==
    [region |-> region, business_area |-> business_area,
     data_source |-> data_source, trade_date_from |-> from,
     trade_date_to |-> to, page |-> page, page_size |-> page_size]

Match(field, value) == [clause |-> "match", field |-> field, value |-> value]

Range(field, gte, lte) ==
    [clause |-> "range", field |-> field, gte |-> gte, lte |-> lte]

build_opensearch_query(params) ==
    LET Build(from_epoch, to_epoch) ==
            IF from_epoch.raised THEN from_epoch
            ELSE IF to_epoch.raised THEN to_epoch
            ELSE Returned(
                    [must |-> << Match("region", params.region),
                                 Match("business_area", params.business_area),
                                 Match("data_source", params.data_source),
                                 Range("tradeDate", from_epoch.value,
                                       to_epoch.value) >>,
                     from |-> (params.page - 1) * params.page_size,
                     size |-> params.page_size])
    IN  Build(convert_date_to_epoch_start(params.trade_date_from),
              convert_date_to_epoch_end(params.trade_date_to))

(***************************************************************************)
(* The search engine behind opensearch_client.search: it holds the         *)
(* matching documents `docs` (those it can return), reports `total`        *)
(* matches in one of the response shapes, and fails the failAt-th call of  *)
(* a request (0: none).                                                    *)
(***************************************************************************)
Min(a, b) == IF a < b THEN a ELSE b

TotalJson(eng) ==
    CASE eng.shape = "int" -> [k |-> "int", n |-> eng.total]
      [] eng.shape = "dict" -> [k |-> "dict", value |-> eng.total]
      [] eng.shape = "novalue" -> [k |-> "dict"]

EngineSearch(eng, query) ==
    [hits |-> [total |-> TotalJson(eng),
               hits |-> [i \in 1..(Min(query.from + query.size, Len(eng.docs))
                                     - Min(query.from, Len(eng.docs))) |->
                            [_source |-> eng.docs[query.from + i]]]]]

(***************************************************************************)
(* latest.py: search_opensearch.  `nth` counts the engine calls of the     *)
(* request.  The result holds the outcome and the engine calls made.       *)
(***************************************************************************)
OpenSearchError(cause) ==
    HTTPException(500, [msg |-> "OpenSearch error: {}", cause |-> cause])

\* total_hits + page_size - 1 floor-divided without the rounding up
total_pages_floor(total_hits, page_size) == total_hits \div page_size

total_pages(total_hits, page_size) == (total_hits + page_size - 1) \div page_size

search_opensearch(params, eng, nth) ==
    LET total_hits(total) ==
            IF total.k = "dict"
            THEN (IF "value" \in DOMAIN total THEN total.value ELSE 0)
            ELSE total.n
        results(hits) == [i \in 1..Len(hits) |-> hits[i]._source]
        Page(response) ==
            [total |-> total_hits(response.hits.total),
             results |-> results(response.hits.hits),
             page |-> params.page,
             page_size |-> params.page_size,
             total_pages |-> total_pages(total_hits(response.hits.total),
                                         params.page_size)]
        Run(query) ==
            IF query.raised
            THEN [out |-> OpenSearchError([exc |-> "HTTPException",
                                            status |-> query.status,
                                            detail |-> query.detail]),
                  calls |-> <<>>]
            ELSE IF eng.failAt = nth
            THEN [out |-> OpenSearchError([exc |-> "ConnectionError"]),
                  calls |-> <<query.value>>]
            ELSE IF params.page_size = 0
            THEN [out |-> OpenSearchError([exc |-> "ZeroDivisionError"]),
                  calls |-> <<query.value>>]
            ELSE [out |-> Returned(Page(EngineSearch(eng, query.value))),
                  calls |-> <<query.value>>]
    IN  Run(build_opensearch_query(params))

(***************************************************************************)
(* latest.py: GET /search                                                  *)
(***************************************************************************)
tradeID == <<"t", "r", "a", "d", "e", "I", "D">>
tradeIdInternal ==
    <<"t", "r", "a", "d", "e", "I", "d", "I", "n", "t", "e", "r", "n", "a", "l">>
primaryAssetClass ==
    <<"p", "r", "i", "m", "a", "r", "y", "A", "s", "s", "e", "t", "C", "l", "a", "s", "s">>
sourceSystemName ==
    <<"s", "o", "u", "r", "c", "e", "S", "y", "s", "t", "e", "m", "N", "a", "m", "e">>
tradeDate == <<"t", "r", "a", "d", "e", "D", "a", "t", "e">>

ui_columns ==
    <<tradeID, tradeIdInternal, primaryAssetClass, sourceSystemName, tradeDate>>

\* Python truthiness of a JSON value
Truthy(v) ==
    CASE v.k = "null" -> FALSE
      [] v.k = "text" -> v.s # <<>>
      [] v.k = "num" -> v.n # Big(0, 0)
      [] v.k = "huge" -> TRUE
      [] v.k \in {"list", "dict"} -> v.items # <<>>

\* The value stored under one column of limited_record, or what raising it
\* raised.
LimitedValue(record, col) ==
    LET Formatted(f) == IF f.raised THEN f ELSE Returned(Text(f.value))
        Limited(value) ==
            IF col = tradeDate /\ Truthy(value)
            THEN Formatted(format_epoch_to_date(value))
            ELSE Returned(value)
    IN  Limited(get_nested_value(record, col))

ColumnOf(record, col) == [key |-> col, out |-> LimitedValue(record, col)]

\* A slip: every field of the record is copied, not only the ui columns.
LimitedRecordAllFields(record) ==
    [i \in 1..Len(record.items) |-> ColumnOf(record, record.items[i].key)]

\* limited_record: one entry per ui column, in order.
LimitedRecord(record) ==
    [i \in 1..Len(ui_columns) |-> ColumnOf(record, ui_columns[i])]

Unhandled(exc) ==
    [status |-> 500, detail |-> "Internal Server Error", exc |-> exc]

ErrorResponse(e) == [status |-> e.status, detail |-> e.detail]

\* The loop over results['results'] and the response of search(): the first
\* column whose formatting raises ends the request.
LimitResults(page) ==
    LET Bad(cols) ==
            {b \in (1..Len(cols)) \X (1..Len(ui_columns)) :
                b[2] <= Len(cols[b[1]]) /\ cols[b[1]][b[2]].out.raised}
        First(bad) ==
            CHOOSE b \in bad :
                \A c \in bad : b[1] < c[1] \/ (b[1] = c[1] /\ b[2] <= c[2])
        Raising(cols, first) == Unhandled(cols[first[1]][first[2]].out.exc)
        Respond(cols, bad) ==
            IF bad # {}
            THEN Raising(cols, First(bad))
            ELSE [status |-> 200,
                  body |-> [page EXCEPT !.results =
                               [i \in 1..Len(cols) |->
                                   Dict([j \in 1..Len(cols[i]) |->
                                            Item(cols[i][j].key,
                                                 cols[i][j].out.value)])]]]
        Limit(cols) == Respond(cols, Bad(cols))
    IN  Limit([i \in 1..Len(page.results) |-> LimitedRecord(page.results[i])])

search(region, business_area, data_source, from, to, page, eng) ==
    LET Respond(results) ==
            [response |-> IF results.out.raised THEN ErrorResponse(results.out)
                          ELSE LimitResults(results.out.value),
             calls |-> results.calls]
    IN  Respond(search_opensearch(
                    SearchParams(region, business_area, data_source, from, to,
                                 page, DefaultPageSize),
                    eng, 1))

(***************************************************************************)
(* latest.py: GET /export                                                  *)
(***************************************************************************)
MaxExport == 10000

RECURSIVE Sorted(_)
\* sorted(list(all_keys))
Sorted(S) ==
    IF S = {} THEN <<>>
    ELSE LET m == CHOOSE x \in S : \A y \in S \ {x} : StrLess(x, y)
         IN  <<m>> \o Sorted(S \ {m})

RECURSIVE ReverseSorted(_)
ReverseSorted(S) ==
    IF S = {} THEN <<>>
    ELSE LET m == CHOOSE x \in S : \A y \in S \ {x} : StrLess(y, x)
         IN  <<m>> \o ReverseSorted(S \ {m})

AllKeys(records) ==
    UNION {Keys(flatten_dict(records[i], <<>>, <<".">>)) : i \in 1..Len(records)}

\* A slip: the key set is listed without sorted().
CsvFieldnamesUnsorted(records) == ReverseSorted(AllKeys(records))

CsvFieldnames(records) == Sorted(AllKeys(records))

\* How csv.writer renders one value: None as the empty field, anything else
\* by str().
CsvCell(v) == IF v = Null THEN <<>> ELSE PyStr(v)

\* DictWriter.writerow: the row's cells in fieldnames order, restval ''.
CsvRow(fieldnames, rowdict) ==
    [j \in 1..Len(fieldnames) |->
        CsvCell(DictGet(rowdict, fieldnames[j], EmptyStr))]

\* The rows written to `output`: none at all for an empty result list,
\* else the header and one row per record.
CsvBody(records) ==
    LET Write(fieldnames) ==
            <<fieldnames>> \o
            [i \in 1..Len(records) |->
                CsvRow(fieldnames, flatten_dict(records[i], <<>>, <<".">>))]
    IN  IF records = <<>> THEN <<>> ELSE Write(CsvFieldnames(records))

export_csv(region, business_area, data_source, from, to, eng) ==
    LET params(page_size) ==
            SearchParams(region, business_area, data_source, from, to,
                         1, page_size)
        max_export(total_records) == Min(total_records, MaxExport)
        Stream(count_result, results) ==
            IF results.out.raised
            THEN [response |-> ErrorResponse(results.out),
                  calls |-> count_result.calls \o results.calls]
            ELSE [response |->
                     [status |-> 200,
                      media_type |-> "text/csv",
                      content_disposition |->
                          "attachment; filename=opensearch_results.csv",
                      body |-> CsvBody(results.out.value.results)],
                  calls |-> count_result.calls \o results.calls]
        Export(count_result) ==
            IF count_result.out.raised
            THEN [response |-> ErrorResponse(count_result.out),
                  calls |-> count_result.calls]
            ELSE Stream(count_result,
                        search_opensearch(
                            params(max_export(count_result.out.value.total)),
                            eng, 2))
    IN  Export(search_opensearch(params(1), eng, 1))

(***************************************************************************)
(* client.py: OpenSearchClient.  `lib` is what the underlying library call *)
(* does: "ok" or the exception it raises.                                  *)
(***************************************************************************)
LibErrors == {"ConnectionError", "TransportError", "SerializationError"}
LibOutcomes == {"ok"} \cup LibErrors

ClientError(exc, message, lib) ==
    [raised |-> TRUE, exc |-> exc, message |-> message, cause |-> lib]

Translate(lib, exc, message) ==
    IF lib = "ok" THEN Returned("response") ELSE ClientError(exc, message, lib)

\* A slip: ping reports its failure as a query error.
ping_as_query_error(lib) ==
    Translate(lib, "OpenSearchQueryError", "Failed to ping cluster: {}")

ping(lib) ==
    Translate(lib, "OpenSearchConnectionError", "Failed to ping cluster: {}")

get_cluster_info(lib) ==
    Translate(lib, "OpenSearchConnectionError", "Failed to get cluster info: {}")

create_index(lib) ==
    Translate(lib, "OpenSearchQueryError", "Failed to create index: {}")

delete_index(lib) ==
    Translate(lib, "OpenSearchQueryError", "Failed to delete index: {}")

index_document(lib) ==
    Translate(lib, "OpenSearchQueryError", "Failed to index document: {}")

get_document(lib) ==
    Translate(lib, "OpenSearchQueryError", "Failed to get document: {}")

client_search(lib) ==
    Translate(lib, "OpenSearchQueryError", "Failed to execute search: {}")

bulk_index(lib) ==
    Translate(lib, "OpenSearchQueryError", "Failed to bulk index: {}")

NoClient == [exists |-> FALSE]

(***************************************************************************)
(* Inputs                                                                  *)
(***************************************************************************)
Regions == {<<"A">>, <<"E">>}
BusinessAreas == {<<"A">>}
DataSources == {<<"A">>, <<>>, <<" ">>}

d2024_01_01 == <<"2", "0", "2", "4", "-", "0", "1", "-", "0", "1">>
d1969_12_31 == <<"1", "9", "6", "9", "-", "1", "2", "-", "3", "1">>
d2023_02_29 == <<"2", "0", "2", "3", "-", "0", "2", "-", "2", "9">>

\* Dates sent to the handlers: two valid ones and one that is malformed.
HandlerDates == {d2024_01_01, d1969_12_31, d2023_02_29}

\* Dates given to the conversion functions directly.
DateInputs ==
    HandlerDates \cup
    { <<"1", "9", "7", "0", "-", "0", "1", "-", "0", "1">>,
      <<"2", "0", "2", "4", "-", "0", "2", "-", "2", "9">>,
      <<"2", "0", "2", "4", "-", "1", "-", "1">>,
      <<"2", "5", "1", "4", "-", "0", "5", "-", "2", "9">>,
      <<"2", "5", "1", "4", "-", "0", "5", "-", "3", "0">>,
      <<"9", "9", "9", "9", "-", "1", "2", "-", "3", "1">>,
      <<"0", "0", "0", "1", "-", "0", "1", "-", "0", "1">>,
      <<"0", "0", "0", "0", "-", "0", "1", "-", "0", "1">>,
      <<"2", "0", "2", "4", "-", "1", "3", "-", "0", "1">>,
      <<"2", "0", "2", "4", "-", "0", "0", "-", "1", "0">>,
      <<"2", "0", "2", "4", "-", "0", "1", "-", "3", "2">>,
      <<"0", "1", "-", "0", "1", "-", "2", "0", "2", "4">>,
      <<"2", "0", "2", "4", "/", "0", "1", "/", "0", "1">>,
      <<"2", "0", "2", "4", "-", "0", "1", "-", "0", "1", "x">>,
      <<"2", "0", "2", "4", "-", "0", "1">>,
      <<>> }

Ms2024 == Dec(<<1, 7, 0, 4, 0, 6, 7, 2, 0, 0, 0, 0, 0>>)
Sec2024 == Dec(<<1, 7, 0, 4, 0, 6, 7, 2, 0, 0>>)

Doc1 ==
    Dict(<< Item(tradeID, Text(<<"T", "1">>)),
            Item(tradeIdInternal, Num(Big(0, 7))),
            Item(primaryAssetClass, Text(<<"F", "X">>)),
            Item(sourceSystemName, Text(<<"S">>)),
            Item(tradeDate, Num(Ms2024)),
            Item(<<"b", "o", "o", "k">>,
                 Dict(<<Item(<<"d", "e", "s", "k">>, Text(<<"d">>))>>)) >>)

Doc2 ==
    Dict(<< Item(tradeID, Text(<<"T", "2">>)),
            Item(primaryAssetClass, Null),
            Item(tradeDate, Null) >>)

Doc3 ==
    Dict(<< Item(tradeID, Text(<<"T", "3">>)),
            Item(tradeDate, Huge) >>)

Doc4 ==
    Dict(<< Item(tradeDate, Text(<<"n", "/", "a">>)),
            Item(tradeID, Dict(<<Item(<<"i", "d">>, Num(Big(0, 4)))>>)) >>)

Doc5 ==
    Dict(<< Item(tradeDate, Num(Sec2024)),
            Item(<<"t", "a", "g", "s">>, List(<<Text(<<"x">>), Num(Big(0, 2))>>)) >>)

\* What the engine holds for a request.
EngineDocs ==
    { <<>>, <<Doc1>>, <<Doc1, Doc2>>, <<Doc2, Doc1>>, <<Doc4, Doc5>>, <<Doc3>>,
      <<Doc5, Doc2, Doc1>> }

\* Hit counts of an index larger than the documents the model writes out.
LargeTotals == {10000, 10001}

Engines(maxFail) ==
    {e \in [docs : EngineDocs, total : (0..3) \cup LargeTotals,
            shape : {"int", "dict", "novalue"}, failAt : 0..maxFail] :
        \/ e.total = Len(e.docs)
        \/ e.docs # <<>> /\ e.total \in LargeTotals}

\* Page sizes given to search_opensearch and build_opensearch_query directly.
PageSizes == {0, 1, 2, 50, DefaultPageSize}

EndpointTokens == {Http, Https, <<"h">>, Port443, <<"/">>, <<":", "9">>}

RECURSIVE EndpointStrings(_)
\* Every string of at most n tokens.
EndpointStrings(n) ==
    IF n = 0 THEN {<<>>}
    ELSE LET S == EndpointStrings(n - 1)
         IN  S \cup {s \o t : s \in S, t \in EndpointTokens}

ClientEndpoints == {<<"h">>, Https \o <<"h">> \o Port443 \o <<"/">>}
Usernames == {<<>>, <<"u">>}
Passwords == {<<>>, <<"p">>}

EpochInputs ==
    { Num(Ms2024), Num(Sec2024),
      Num(Dec(<<8, 6, 4, 0, 0, 0, 0, 0>>)), Num(Dec(<<8, 6, 4, 0, 0>>)),
      Num(MsThreshold), Num(BigShift(MsThreshold, 1)),
      Num(Dec(<<2, 5, 3, 4, 0, 2, 3, 0, 0, 7, 9, 9, 9, 9, 9>>)),
      Num(Dec(<<2, 5, 3, 4, 0, 2, 3, 0, 0, 8, 0, 0, 0, 0, 0>>)),
      Num(Dec(<<2, 5, 3, 4, 0, 2, 3, 0, 0, 7, 9, 9>>)),
      Num(Big(0, 0)), Num(BigNeg(Big(0, 1))),
      Num(BigNeg(Dec(<<6, 2, 1, 3, 5, 5, 9, 6, 8, 0, 1>>))),
      Num(GmtimeMin), Num(BigPred(GmtimeMin)),
      Huge,
      Text(<<"1", "7", "0", "4", "0", "6", "7", "2", "0", "0">>),
      Text(<<" ", "8", "6", "4", "0", "0", " ">>),
      Text(<<"-", "1">>),
      Text(<<"i", "n", "f">>), Text(<<"n", "a", "n">>),
      Text(<<"n", "/", "a">>), Text(<<>>),
      Null, List(<<Num(Big(0, 1)), Num(Big(0, 2))>>),
      Dict(<<Item(<<"a">>, Num(Big(0, 1)))>>) }

\* Documents given to flatten_dict and get_nested_value directly.
NestedDocs ==
    { Doc1, Doc2, Doc4, Doc5,
      Dict(<<>>),
      Dict(<< Item(<<"a">>, Dict(<<Item(<<"b">>, Num(Big(0, 1)))>>)),
              Item(<<"c">>, List(<<Num(Big(0, 1)), Num(Big(0, 2))>>)) >>),
      Dict(<< Item(<<"a", ".", "b">>, Num(Big(0, 1))),
              Item(<<"a">>, Dict(<<Item(<<"b">>, Num(Big(0, 2)))>>)) >>),
      Dict(<< Item(<<"a">>, Dict(<<Item(<<"b">>, Dict(<<>>)),
                                  Item(<<"c">>, Null)>>)) >>),
      Dict(<< Item(<<"a">>, Dict(<<Item(<<"b">>,
                  Dict(<<Item(<<"c">>, Text(<<"x">>))>>))>>)) >>),
      Dict(<< Item(<<"a">>, List(<<Dict(<<Item(<<"x">>, Num(Big(0, 1)))>>)>>)),
              Item(<<"b">>, List(<<>>)) >>),
      Dict(<< Item(<<>>, Dict(<<Item(<<"b">>, Num(Big(0, 1)))>>)) >>),
      Dict(<< Item(<<"a">>, Dict(<<Item(<<>>, Num(Big(0, 1)))>>)) >>),
      Text(<<"x">>), List(<<>>), Null }

NestedKeys ==
    { <<"a">>, <<"a", ".", "b">>, <<"a", ".", "b", ".", "c">>, <<"a", ".", "c">>,
      <<"c">>, tradeID, tradeDate, <<"b", "o", "o", "k", ".", "d", "e", "s", "k">> }

(***************************************************************************)
(* The state machine: every step runs one operation to completion.         *)
(***************************************************************************)
Init ==
    /\ op = "none"
    /\ arg = [none |-> TRUE]
    /\ ret = [none |-> TRUE]
    /\ calls = <<>>
    /\ client = NoClient

\* No operation is under way: the last result was handed to the caller.
Idle == op = "none"

\* utils.validate_endpoint called on its own
ValidateEndpoint ==
    /\ Idle
    /\ \E endpoint \in EndpointStrings(MaxTokens) :
        /\ op' = "validate_endpoint"
        /\ arg' = [endpoint |-> endpoint]
        /\ ret' = Returned(validate_endpoint(endpoint))
        /\ calls' = <<>>
        /\ UNCHANGED client

\* OpenSearchClient(endpoint, username, password)
Construct ==
    /\ Idle
    /\ \E endpoint \in ClientEndpoints, username \in Usernames,
       password \in Passwords, lib \in LibOutcomes :
        LET auth == BasicAuthProvider(username, password)
        IN  /\ op' = "__init__"
            /\ arg' = [endpoint |-> endpoint, username |-> username,
                       password |-> password, lib |-> lib]
            /\ IF auth.raised
               THEN ret' = auth /\ calls' = <<>> /\ UNCHANGED client
               ELSE /\ calls' = <<"OpenSearch">>
                    /\ IF lib = "ok"
                       THEN /\ ret' = Returned("client")
                            /\ client' = [exists |-> TRUE,
                                          endpoint |-> validate_endpoint(endpoint),
                                          username |-> username,
                                          http_auth |-> auth.value,
                                          closed |-> FALSE]
                       ELSE /\ ret' = ClientError("OpenSearchConnectionError",
                                          "Failed to initialize OpenSearch client: {}",
                                          lib)
                            /\ UNCHANGED client

Ping ==
    /\ Idle
    /\ client.exists
    /\ \E lib \in LibOutcomes :
        /\ op' = "ping"
        /\ arg' = [lib |-> lib]
        /\ calls' = <<"ping">>
        /\ ret' = ping(lib)
    /\ UNCHANGED client

GetClusterInfo ==
    /\ Idle
    /\ client.exists
    /\ \E lib \in LibOutcomes :
        /\ op' = "get_cluster_info"
        /\ arg' = [lib |-> lib]
        /\ calls' = <<"info">>
        /\ ret' = get_cluster_info(lib)
    /\ UNCHANGED client

CreateIndex ==
    /\ Idle
    /\ client.exists
    /\ \E lib \in LibOutcomes, body \in {"none", "settings"} :
        /\ op' = "create_index"
        /\ arg' = [lib |-> lib, body |-> body]
        /\ calls' = <<"indices.create">>
        /\ ret' = create_index(lib)
    /\ UNCHANGED client

DeleteIndex ==
    /\ Idle
    /\ client.exists
    /\ \E lib \in LibOutcomes :
        /\ op' = "delete_index"
        /\ arg' = [lib |-> lib]
        /\ calls' = <<"indices.delete">>
        /\ ret' = delete_index(lib)
    /\ UNCHANGED client

IndexDocument ==
    /\ Idle
    /\ client.exists
    /\ \E lib \in LibOutcomes, doc_id \in {"none", "1"} :
        /\ op' = "index_document"
        /\ arg' = [lib |-> lib, doc_id |-> doc_id]
        /\ calls' = <<"index">>
        /\ ret' = index_document(lib)
    /\ UNCHANGED client

GetDocument ==
    /\ Idle
    /\ client.exists
    /\ \E lib \in LibOutcomes :
        /\ op' = "get_document"
        /\ arg' = [lib |-> lib]
        /\ calls' = <<"get">>
        /\ ret' = get_document(lib)
    /\ UNCHANGED client

ClientSearch ==
    /\ Idle
    /\ client.exists
    /\ \E lib \in LibOutcomes :
        /\ op' = "client.search"
        /\ arg' = [lib |-> lib]
        /\ calls' = <<"search">>
        /\ ret' = client_search(lib)
    /\ UNCHANGED client

BulkIndex ==
    /\ Idle
    /\ client.exists
    /\ \E lib \in LibOutcomes, n \in 0..MaxBulk :
        /\ op' = "bulk_index"
        /\ arg' = [lib |-> lib, documents |-> n]
        /\ calls' = <<"helpers.bulk">>
        /\ ret' = bulk_index(lib)
    /\ UNCHANGED client

\* close() is not wrapped: what the library raises leaves as it is.
Close ==
    /\ Idle
    /\ client.exists
    /\ \E lib \in LibOutcomes :
        /\ op' = "close"
        /\ arg' = [lib |-> lib]
        /\ calls' = <<"close">>
        /\ ret' = IF lib = "ok" THEN Returned("none") ELSE Raised(lib)
    /\ client' = [client EXCEPT !.closed = TRUE]

ConvertDateToEpoch ==
    /\ Idle
    /\ \E date_str \in DateInputs, which \in {"start", "end"} :
        /\ op' = "convert_date_to_epoch_" \o which
        /\ arg' = [date_str |-> date_str]
        /\ ret' = IF which = "start" THEN convert_date_to_epoch_start(date_str)
                  ELSE convert_date_to_epoch_end(date_str)
        /\ calls' = <<>>
        /\ UNCHANGED client

BuildOpensearchQuery ==
    /\ Idle
    /\ \E region \in Regions, business_area \in BusinessAreas,
       data_source \in DataSources, from \in DateInputs, to \in HandlerDates,
       page \in 1..(MaxPage + 1), page_size \in PageSizes :
        LET params == SearchParams(region, business_area, data_source,
                                   from, to, page, page_size)
        IN  /\ op' = "build_opensearch_query"
            /\ arg' = [params |-> params]
            /\ ret' = build_opensearch_query(params)
            /\ calls' = <<>>
            /\ UNCHANGED client

SearchOpensearch ==
    /\ Idle
    /\ \E data_source \in DataSources, from \in HandlerDates,
       page \in 1..(MaxPage + 1), page_size \in PageSizes, eng \in Engines(1) :
        \E params \in {SearchParams(<<"A">>, <<"A">>, data_source,
                                     from, d2024_01_01, page, page_size)} :
        \E r \in {search_opensearch(params, eng, 1)} :
            /\ op' = "search_opensearch"
            /\ arg' = [params |-> params, eng |-> eng]
            /\ ret' = r.out
            /\ calls' = r.calls
            /\ UNCHANGED client

\* GET /search
Search ==
    /\ Idle
    /\ \E region \in Regions, business_area \in BusinessAreas,
       data_source \in DataSources, from \in HandlerDates, to \in HandlerDates,
       page \in 1..MaxPage, eng \in Engines(1) :
        \E r \in {search(region, business_area, data_source, from, to, page, eng)} :
            /\ op' = "search"
            /\ arg' = [region |-> region, business_area |-> business_area,
                       data_source |-> data_source, trade_date_from |-> from,
                       trade_date_to |-> to, page |-> page, eng |-> eng]
            /\ ret' = r.response
            /\ calls' = r.calls
            /\ UNCHANGED client

\* GET /export
ExportCsv ==
    /\ Idle
    /\ \E region \in Regions, business_area \in BusinessAreas,
       data_source \in DataSources, from \in HandlerDates, to \in HandlerDates,
       eng \in Engines(2) :
        \E r \in {export_csv(region, business_area, data_source, from, to, eng)} :
            /\ op' = "export"
            /\ arg' = [region |-> region, business_area |-> business_area,
                       data_source |-> data_source, trade_date_from |-> from,
                       trade_date_to |-> to, eng |-> eng]
            /\ ret' = r.response
            /\ calls' = r.calls
            /\ UNCHANGED client

FormatEpochToDate ==
    /\ Idle
    /\ \E epoch_value \in EpochInputs :
        /\ op' = "format_epoch_to_date"
        /\ arg' = [epoch_value |-> epoch_value]
        /\ ret' = format_epoch_to_date(epoch_value)
        /\ calls' = <<>>
        /\ UNCHANGED client

GetNestedValue ==
    /\ Idle
    /\ \E data \in NestedDocs, key \in NestedKeys :
        /\ op' = "get_nested_value"
        /\ arg' = [data |-> data, key |-> key]
        /\ ret' = Returned(get_nested_value(data, key))
        /\ calls' = <<>>
        /\ UNCHANGED client

FlattenDict ==
    /\ Idle
    /\ \E d \in {x \in NestedDocs : IsDict(x)} :
        /\ op' = "flatten_dict"
        /\ arg' = [d |-> d]
        /\ ret' = Returned(flatten_dict(d, <<>>, <<".">>))
        /\ calls' = <<>>
        /\ UNCHANGED client

\* The operation's result reaches its caller; nothing of the request is kept.
Return ==
    /\ ~Idle
    /\ op' = "none"
    /\ arg' = [none |-> TRUE]
    /\ ret' = [none |-> TRUE]
    /\ calls' = <<>>
    /\ UNCHANGED client

\* The web application (latest.py)
Next ==
    \/ ConvertDateToEpoch
    \/ BuildOpensearchQuery
    \/ SearchOpensearch
    \/ Search
    \/ ExportCsv
    \/ FormatEpochToDate
    \/ GetNestedValue
    \/ FlattenDict
    \/ Return

Spec == Init /\ [][Next]_vars

\* The client library (client.py, auth.py, utils.py)
ClientNext ==
    \/ ValidateEndpoint
    \/ Construct
    \/ Ping
    \/ GetClusterInfo
    \/ CreateIndex
    \/ DeleteIndex
    \/ IndexDocument
    \/ GetDocument
    \/ ClientSearch
    \/ BulkIndex
    \/ Close
    \/ Return

ClientSpec == Init /\ [][ClientNext]_vars

(***************************************************************************)
(* What the properties below are stated with                               *)
(***************************************************************************)
\* date_str names a calendar day in the YYYY-MM-DD form.
ValidDate(date_str) == strptime(date_str).ok

\* Days from 1970-01-01 to the day a valid date_str names.
DayOf(date_str) ==
    LET Day(dt) == DaysFromCivil(dt.y, dt.m, dt.d)
    IN  Day(strptime(date_str))

\* A /search or /export request one of whose dates is not valid.
BadDateRequest ==
    /\ op \in {"search", "export"}
    /\ ~ValidDate(arg.trade_date_from) \/ ~ValidDate(arg.trade_date_to)

\* The date such a request is rejected for: trade_date_from is read first.
OffendingDate ==
    IF ~ValidDate(arg.trade_date_from) THEN arg.trade_date_from
    ELSE arg.trade_date_to

\* The hit count an engine reports, whatever the shape it reports it in.
ReportedTotal(eng) == IF eng.shape = "novalue" THEN 0 ELSE eng.total

\* The source documents the engine returns for a query.
SourcesOf(eng, query) ==
    LET Sources(hits) == [i \in 1..Len(hits) |-> hits[i]._source]
    IN  Sources(EngineSearch(eng, query).hits.hits)

\* An /export request with valid dates to an engine that answers every call.
GoodExport ==
    /\ op = "export"
    /\ ValidDate(arg.trade_date_from) /\ ValidDate(arg.trade_date_to)
    /\ arg.eng.failAt = 0

\* The CSV attachment of `records`: as many rows as records plus the header,
\* or nothing at all.
IsCsvAttachment(response, records) ==
    /\ response.status = 200
    /\ response.media_type = "text/csv"
    /\ response.content_disposition = "attachment; filename=opensearch_results.csv"
    /\ Len(response.body) = IF records = <<>> THEN 0 ELSE Len(records) + 1

\* build_opensearch_query returned a query.
BuiltQuery == op = "build_opensearch_query" /\ ~ret.raised

\* A string of blanks only.
Blank(s) == Strip(s) = <<>>

Ceil(a, b) == IF a % b = 0 THEN a \div b ELSE (a \div b) + 1

\* The keys of a dict, in order.
KeySeq(d) == [j \in 1..Len(d.items) |-> d.items[j].key]

\* a * 1000, for 0 <= a <= 10000000000
Times1000(a) == BigShift(BigShift(BigShift(a, 0), 0), 0)

Jan2024 ==
    <<"0", "1", "-", "J", "A", "N", "-", "2", "0", "2", "4", " ", "U", "T", "C">>

\* float(epoch_value) fails, or what it gives is no instant at all.
Unparsable(epoch_value) ==
    PyFloat(epoch_value).t \in {"ValueError", "TypeError", "nan"}

\* epoch_value is a number of seconds whose milliseconds lie above the
\* threshold.
SecondsWithMs(epoch_value) ==
    /\ epoch_value.k = "num"
    /\ epoch_value.n.d >= 0
    /\ ~BigLess(MsThreshold, epoch_value.n)
    /\ BigLess(MsThreshold, Times1000(epoch_value.n))

\* What float(epoch_value) gives lies outside what utcfromtimestamp converts
\* or reports as a ValueError.
OutOfTimeRange(epoch_value) ==
    LET Out(f) == \/ f.t \in {"inf", "huge"}
                  \/ f.t = "fin" /\ BigLess(f.n, GmtimeMin)
    IN  Out(PyFloat(epoch_value))

ConnectionOps == {"__init__", "ping", "get_cluster_info"}

QueryOps ==
    {"create_index", "delete_index", "index_document", "get_document",
     "client.search", "bulk_index"}

BareHosts == {<<"h">>, <<"h", "h">>}

\* h with an optional scheme, an optional :443 and an optional trailing slash.
Variants(h) ==
    {scheme \o h \o port \o slash :
        scheme \in {<<>>, Http, Https}, port \in {<<>>, Port443},
        slash \in {<<>>, <<"/">>}}

\* The variants of a bare hostname go to that hostname.
VariantsNormalised ==
    \A h \in BareHosts : arg.endpoint \in Variants(h) => ret.value = h

(***************************************************************************)
(* C1                                                                      *)
(***************************************************************************)
\* C1, as the specification states it: a /search or /export request whose
\* trade_date_from or trade_date_to is not a valid YYYY-MM-DD date fails with
\* status 400 and a detail that holds the offending date, and the search
\* engine is not called.
C1_BadDateIs400 ==
    BadDateRequest =>
        /\ ret.status = 400
        /\ ret.detail.value = OffendingDate
        /\ calls = <<>>

\* C1, as the code behaves: search_opensearch catches the 400 raised for the
\* date and raises status 500 in its place; the detail holds the 400 and the
\* offending date as the cause; the engine is not called.
C1_BadDateIs500 ==
    BadDateRequest =>
        /\ ret.status = 500
        /\ ret.detail.cause.exc = "HTTPException"
        /\ ret.detail.cause.status = 400
        /\ ret.detail.cause.detail.value = OffendingDate
        /\ calls = <<>>

\* C1: a /search request for trade_date_from = "2023-02-29" was answered with
\* status 500.
C1_BadDateSeen ==
    /\ op = "search"
    /\ arg.trade_date_from = d2023_02_29
    /\ ret.status = 500
    /\ calls = <<>>

(***************************************************************************)
(* C2                                                                      *)
(***************************************************************************)
\* C2, as the specification states it: with valid dates and a responsive
\* engine, whatever hit count it reports (0 included), /export answers with
\* the CSV attachment: it asks for at most 10,000 records, writes one row per
\* returned record, and writes nothing when no record matches.
C2_ExportAlwaysCsv ==
    GoodExport =>
        /\ Len(calls) = 2
        /\ calls[2].size <= MaxExport
        /\ IsCsvAttachment(ret, SourcesOf(arg.eng, calls[2]))
        /\ ReportedTotal(arg.eng) = 0 => ret.body = <<>>

\* C2, as the code behaves: when the engine reports 0 hits the second search
\* asks for 0 records and the computation of total_pages divides by zero, so
\* /export answers with status 500; with one hit or more it answers with the
\* CSV attachment.
C2_ExportOfNoHitsIs500 ==
    GoodExport =>
        /\ Len(calls) = 2
        /\ calls[2].size = Min(ReportedTotal(arg.eng), MaxExport)
        /\ IF ReportedTotal(arg.eng) = 0
           THEN /\ ret.status = 500
                /\ ret.detail.cause.exc = "ZeroDivisionError"
           ELSE IsCsvAttachment(ret, SourcesOf(arg.eng, calls[2]))

\* C2: an /export request with valid dates, to a responsive engine holding
\* no matching document, was answered with status 500.
C2_EmptyExportSeen ==
    /\ GoodExport
    /\ arg.eng.shape = "int" /\ arg.eng.total = 0
    /\ ret.status = 500

(***************************************************************************)
(* C3                                                                      *)
(***************************************************************************)
\* C3: an OpenSearchClient operation that reaches the underlying library
\* calls it exactly once; when the library fails, the constructor, ping and
\* get_cluster_info raise OpenSearchConnectionError and create_index,
\* delete_index, index_document, get_document, search and bulk_index raise
\* OpenSearchQueryError, never the library's own exception.
C3_FailuresTranslated ==
    (op \in ConnectionOps \cup QueryOps /\ calls # <<>>) =>
        /\ Len(calls) = 1
        /\ arg.lib = "ok" => ~ret.raised
        /\ arg.lib # "ok" =>
            /\ ret.raised
            /\ ret.exc = IF op \in ConnectionOps THEN "OpenSearchConnectionError"
                         ELSE "OpenSearchQueryError"
            /\ ret.exc \notin LibErrors
            /\ ret.cause = arg.lib

\* C3: bulk_index met a TransportError of the library and raised
\* OpenSearchQueryError after one call.
C3_FailureSeen ==
    /\ op = "bulk_index"
    /\ arg.lib = "TransportError"
    /\ ret.raised /\ ret.exc = "OpenSearchQueryError"
    /\ Len(calls) = 1

(***************************************************************************)
(* C4                                                                      *)
(***************************************************************************)
\* C4, as the specification states it: the must array holds one match
\* clause for region, one for business_area, one for data_source only when
\* data_source is not blank, and then the range clause on tradeDate; a blank
\* data_source produces no match clause.
C4_BlankDataSourceOmitted ==
    BuiltQuery =>
        LET p == arg.params
            must == ret.value.must
        IN  /\ must[1] = Match("region", p.region)
            /\ must[2] = Match("business_area", p.business_area)
            /\ IF Blank(p.data_source)
               THEN /\ Len(must) = 3
                    /\ must[3].clause = "range" /\ must[3].field = "tradeDate"
               ELSE /\ Len(must) = 4
                    /\ must[3] = Match("data_source", p.data_source)
                    /\ must[4].clause = "range" /\ must[4].field = "tradeDate"

\* C4, as the code behaves: the must array always holds the three match
\* clauses (region, business_area, data_source, whatever data_source is) and
\* then the range clause on tradeDate.
C4_DataSourceAlwaysMatched ==
    BuiltQuery =>
        LET p == arg.params
            must == ret.value.must
        IN  /\ Len(must) = 4
            /\ must[1] = Match("region", p.region)
            /\ must[2] = Match("business_area", p.business_area)
            /\ must[3] = Match("data_source", p.data_source)
            /\ must[4].clause = "range" /\ must[4].field = "tradeDate"

\* C4: a query was built for the data_source " " and holds a match clause
\* for it.
C4_BlankDataSourceSeen ==
    /\ BuiltQuery
    /\ arg.params.data_source = <<" ">>
    /\ ret.value.must[3] = Match("data_source", <<" ">>)

(***************************************************************************)
(* C5                                                                      *)
(***************************************************************************)
\* C5, as the specification states it: gte is 00:00:00.000 UTC of
\* trade_date_from and lte is 23:59:59.999 UTC of trade_date_to, in epoch
\* milliseconds, so that one date given as both has lte = gte + 86,399,999;
\* ("2024-01-01", "2024-01-01") gives [1704067200000, 1704153599999].
C5_RangeBounds ==
    BuiltQuery =>
        LET p == arg.params
            range == ret.value.must[Len(ret.value.must)]
        IN  /\ range.gte = Big(DayOf(p.trade_date_from), 0)
            /\ range.lte = Big(DayOf(p.trade_date_to), DayMs - 1)
            /\ (p.trade_date_from = d2024_01_01 /\ p.trade_date_to = d2024_01_01) =>
                /\ range.gte = Ms2024
                /\ range.lte = Dec(<<1, 7, 0, 4, 1, 5, 3, 5, 9, 9, 9, 9, 9>>)

\* C5, as the code behaves: gte is 00:00:00.000 UTC of trade_date_from; lte
\* is 23:59:59.999 UTC of trade_date_to for the days from 1970-01-01 to
\* 2514-05-29, and 00:00:00.000 UTC of the following day for every other
\* day.
C5_RangeBoundsOfTheCode ==
    /\ BuiltQuery =>
        LET p == arg.params
            range == ret.value.must[Len(ret.value.must)]
            last == DayOf(p.trade_date_to)
        IN  /\ range.gte = Big(DayOf(p.trade_date_from), 0)
            /\ range.lte = IF 0 <= last /\ last < DoubleCarryDay
                           THEN Big(last, DayMs - 1) ELSE Big(last + 1, 0)
    /\ (op = "convert_date_to_epoch_end" /\ ~ret.raised) =>
        LET last == DayOf(arg.date_str)
        IN  ret.value = IF 0 <= last /\ last < DoubleCarryDay
                        THEN Big(last, DayMs - 1) ELSE Big(last + 1, 0)

\* C5: the query built for ("1969-12-31", "1969-12-31") has the bounds
\* [-86400000, 0].
C5_Day1969Seen ==
    /\ BuiltQuery
    /\ arg.params.trade_date_from = d1969_12_31
    /\ arg.params.trade_date_to = d1969_12_31
    /\ ret.value.must[4] = Range("tradeDate", Big(-1, 0), Big(0, 0))

(***************************************************************************)
(* C6                                                                      *)
(***************************************************************************)
\* C6: every entry of the results of a /search answer has exactly the keys
\* tradeID, tradeIdInternal, primaryAssetClass, sourceSystemName, tradeDate,
\* one entry per returned hit; a column that is missing or null in the hit's
\* source, or reached through a value that is no mapping, is the empty
\* string; and a request with valid dates to a responsive engine fails only
\* when the formatting of a present tradeDate raises.
C6_FixedColumns ==
    /\ (op = "search" /\ ret.status = 200) =>
        LET src == SourcesOf(arg.eng, calls[1])
            res == ret.body.results
        IN  /\ Len(res) = Len(src)
            /\ \A i \in 1..Len(res) :
                /\ KeySeq(res[i]) = ui_columns
                /\ \A j \in 1..Len(ui_columns) :
                    DictGet(src[i], ui_columns[j], Null) = Null =>
                        res[i].items[j].val = EmptyStr
    /\ (/\ op = "search" /\ ret.status # 200
        /\ ValidDate(arg.trade_date_from) /\ ValidDate(arg.trade_date_to)
        /\ arg.eng.failAt # 1) =>
        \E i \in 1..Len(SourcesOf(arg.eng, calls[1])) :
            LET value == DictGet(SourcesOf(arg.eng, calls[1])[i], tradeDate, Null)
            IN  Truthy(value) /\ format_epoch_to_date(value).raised
    /\ (op = "get_nested_value" /\ ~IsDict(arg.data)) => ret.value = EmptyStr
    /\ (op = "get_nested_value" /\ IsDict(arg.data)) =>
        LET keys == Split(arg.key, ".")
            first == DictGet(arg.data, keys[1], Null)
        IN  /\ Len(keys) = 1 => ret.value = IF first = Null THEN EmptyStr ELSE first
            /\ (Len(keys) > 1 /\ ~IsDict(first)) => ret.value = EmptyStr

\* C6: a /search answer holds the entry of a hit whose source has no
\* tradeIdInternal and a null primaryAssetClass and tradeDate (and other
\* fields besides): the five columns, the empty string in those three.
C6_MissingColumnsSeen ==
    /\ op = "search" /\ ret.status = 200
    /\ arg.eng.docs = <<Doc1, Doc2>>
    /\ Len(ret.body.results) = 2
    /\ ret.body.results[2] =
          Dict(<< Item(tradeID, Text(<<"T", "2">>)),
                  Item(tradeIdInternal, EmptyStr),
                  Item(primaryAssetClass, EmptyStr),
                  Item(sourceSystemName, EmptyStr),
                  Item(tradeDate, EmptyStr) >>)

(***************************************************************************)
(* C7                                                                      *)
(***************************************************************************)
\* C7: in the page search_opensearch returns, total is the engine's hit
\* count (a bare integer as it is, an object by its "value", 0 when the
\* object has none), total_pages is total / page_size rounded up, page and
\* page_size are those of the request, and the query sent asks for page_size
\* records from offset (page - 1) * page_size: 100 for page 3 of size 50.
C7_ResultPage ==
    /\ (op = "search_opensearch" /\ ~ret.raised) =>
        LET p == arg.params
            v == ret.value
        IN  /\ v.total = ReportedTotal(arg.eng)
            /\ v.total_pages = Ceil(v.total, p.page_size)
            /\ v.page = p.page
            /\ v.page_size = p.page_size
            /\ Len(calls) = 1
            /\ calls[1].from = (p.page - 1) * p.page_size
            /\ calls[1].size = p.page_size
            /\ (p.page = 3 /\ p.page_size = 50) => calls[1].from = 100
    /\ BuiltQuery =>
        /\ ret.value.from = (arg.params.page - 1) * arg.params.page_size
        /\ ret.value.size = arg.params.page_size

\* C7: search_opensearch returned page 3 of size 50 from an engine that
\* reports 10001 hits as an object: 201 pages, offset 100.
C7_PageSeen ==
    /\ op = "search_opensearch" /\ ~ret.raised
    /\ arg.params.page = 3 /\ arg.params.page_size = 50
    /\ arg.eng.shape = "dict" /\ arg.eng.total = 10001
    /\ ret.value.total = 10001
    /\ ret.value.total_pages = 201
    /\ calls[1].from = 100

(***************************************************************************)
(* C8                                                                      *)
(***************************************************************************)
\* C8: when /export writes a non-empty sequence of records, the header row
\* holds the flattened keys of all the records, each once, in ascending
\* order; there is one row per record, in the order returned; and a record
\* that lacks a key of the header has an empty cell there.
C8_CsvLayout ==
    (op = "export" /\ ret.status = 200) =>
        LET records == SourcesOf(arg.eng, calls[2])
            body == ret.body
        IN  records # <<>> =>
            /\ Len(body) = Len(records) + 1
            /\ {body[1][j] : j \in 1..Len(body[1])} = AllKeys(records)
            /\ \A j \in 1..(Len(body[1]) - 1) : StrLess(body[1][j], body[1][j + 1])
            /\ \A i \in 1..Len(records) :
                /\ Len(body[i + 1]) = Len(body[1])
                /\ \A j \in 1..Len(body[1]) :
                    LET flat == flatten_dict(records[i], <<>>, <<".">>)
                    IN  IF body[1][j] \in Keys(flat)
                        THEN body[i + 1][j] = CsvCell(DictGet(flat, body[1][j], Null))
                        ELSE body[i + 1][j] = <<>>

\* C8: /export wrote two records of which the second lacks the key
\* tradeIdInternal of the first: a header and two rows, the second row's
\* cell for that key empty.
C8_MissingKeySeen ==
    /\ op = "export" /\ ret.status = 200
    /\ arg.eng.docs = <<Doc1, Doc2>>
    /\ Len(ret.body) = 3
    /\ \E j \in 1..Len(ret.body[1]) :
        /\ ret.body[1][j] = tradeIdInternal
        /\ ret.body[2][j] = <<"7">>
        /\ ret.body[3][j] = <<>>

(***************************************************************************)
(* C9                                                                      *)
(***************************************************************************)
\* C9, as the specification states it: validate_endpoint maps every variant
\* of a bare hostname h (optional http:// or https://, optional :443,
\* optional trailing slash) to h, and applying it to its own result changes
\* nothing, whatever the input.
C9_Idempotent ==
    op = "validate_endpoint" =>
        /\ VariantsNormalised
        /\ validate_endpoint(ret.value) = ret.value

\* C9, amended: validate_endpoint maps every variant of a bare hostname h
\* to h, and applying it to the result of such a variant changes nothing.
C9_VariantsIdempotent ==
    op = "validate_endpoint" =>
        /\ VariantsNormalised
        /\ (\E h \in BareHosts : arg.endpoint \in Variants(h)) =>
            validate_endpoint(ret.value) = ret.value

\* C9: validate_endpoint was given https://h:443/ and returned h.
C9_VariantSeen ==
    /\ op = "validate_endpoint"
    /\ arg.endpoint = Https \o <<"h">> \o Port443 \o <<"/">>
    /\ ret.value = <<"h">>

(***************************************************************************)
(* C10                                                                     *)
(***************************************************************************)
\* C10, as the specification states it: format_epoch_to_date never raises;
\* a number of seconds renders as the same instant in milliseconds does
\* (1704067200000 and 1704067200 both as "01-JAN-2024 UTC"), values above
\* 10,000,000,000 being read as milliseconds; and a value that is not
\* numeric or cannot be parsed is returned as its string form.
C10_NeverRaises ==
    op = "format_epoch_to_date" =>
        /\ ~ret.raised
        /\ arg.epoch_value \in {Num(Ms2024), Num(Sec2024)} => ret.value = Jan2024
        /\ SecondsWithMs(arg.epoch_value) =>
            ret = format_epoch_to_date(Num(Times1000(arg.epoch_value.n)))
        /\ Unparsable(arg.epoch_value) => ret.value = PyStr(arg.epoch_value)

\* C10, as the code behaves: format_epoch_to_date raises OverflowError for
\* an infinite or huge value and OSError for seconds below what gmtime
\* converts, and raises for nothing else; otherwise as stated.
C10_RaisesOutOfRange ==
    op = "format_epoch_to_date" =>
        /\ ret.raised <=> OutOfTimeRange(arg.epoch_value)
        /\ ret.raised => ret.exc \in {"OverflowError", "OSError"}
        /\ arg.epoch_value \in {Num(Ms2024), Num(Sec2024)} => ret.value = Jan2024
        /\ SecondsWithMs(arg.epoch_value) =>
            ret = format_epoch_to_date(Num(Times1000(arg.epoch_value.n)))
        /\ Unparsable(arg.epoch_value) => ret.value = PyStr(arg.epoch_value)

\* C10: format_epoch_to_date was given the text "inf" and raised
\* OverflowError.
C10_RaiseSeen ==
    /\ op = "format_epoch_to_date"
    /\ arg.epoch_value = Text(<<"i", "n", "f">>)
    /\ ret = Raised("OverflowError")

(***************************************************************************)
(* C11                                                                     *)
(***************************************************************************)
RECURSIVE LeavesOf(_, _)
\* The leaves of a document that are no mapping, in order, each with the
\* keys that lead to it.
LeavesOf(its, path) ==
    IF its = <<>> THEN <<>>
    ELSE LET Here(it, p) ==
                 IF IsDict(it.val) THEN LeavesOf(it.val.items, p)
                 ELSE <<[path |-> p, val |-> it.val]>>
         IN  Here(Head(its), Append(path, Head(its).key))
                 \o LeavesOf(Tail(its), path)

\* The path joined with '.'
PathKey(path) == Join(path, <<".">>)

RECURSIVE KeyFrom(_, _)
\* The key flatten_dict forms along a path: a prefix that is still the empty
\* string is dropped together with its separator.
KeyFrom(prefix, path) ==
    IF path = <<>> THEN prefix
    ELSE KeyFrom(IF prefix # <<>> THEN prefix \o <<".">> \o Head(path)
                 ELSE Head(path),
                 Tail(path))

\* What a leaf is written as: a list by its string form, a scalar as it is.
Rendered(v) == IF v.k = "list" THEN Text(PyStr(v)) ELSE v

\* {"a": {"b": 1}, "c": [1, 2]}
FlattenExample ==
    Dict(<< Item(<<"a">>, Dict(<<Item(<<"b">>, Num(Big(0, 1)))>>)),
            Item(<<"c">>, List(<<Num(Big(0, 1)), Num(Big(0, 2))>>)) >>)

\* {"a.b": 1, "c": "[1, 2]"}
FlattenedExample ==
    Dict(<< Item(<<"a", ".", "b">>, Num(Big(0, 1))),
            Item(<<"c">>, Text(<<"[", "1", ",", " ", "2", "]">>)) >>)

\* A single-level mapping: no key twice, no value a mapping or a list.
SingleLevel(d) ==
    /\ \A j \in 1..Len(d.items) : d.items[j].val.k \notin {"dict", "list"}
    /\ \A j, k \in 1..Len(d.items) : d.items[j].key = d.items[k].key => j = k

\* C11, as the specification states it: flatten_dict returns a single-level
\* mapping in which every non-mapping leaf of the document appears exactly
\* once, under its path joined with '.', a scalar with its value and a list
\* as its string form; {"a": {"b": 1}, "c": [1, 2]} gives
\* {"a.b": 1, "c": "[1, 2]"}.
C11_EveryLeafOnce ==
    op = "flatten_dict" =>
        LET out == ret.value
            leaves == LeavesOf(arg.d.items, <<>>)
        IN  /\ SingleLevel(out)
            /\ Len(out.items) = Len(leaves)
            /\ \A i \in 1..Len(leaves) :
                /\ PathKey(leaves[i].path) \in Keys(out)
                /\ DictGet(out, PathKey(leaves[i].path), Null)
                       = Rendered(leaves[i].val)
            /\ arg.d = FlattenExample => out = FlattenedExample

\* C11, as the code behaves: flatten_dict returns a single-level mapping
\* whose keys are those it forms along the paths of the non-mapping leaves
\* (an empty first key adds nothing, not even its separator); of the leaves
\* that come to the same key only the last is kept; when every leaf's key is
\* its path joined with '.' and no two leaves share one, every leaf appears
\* exactly once.
C11_LastLeafKept ==
    op = "flatten_dict" =>
        LET out == ret.value
            leaves == LeavesOf(arg.d.items, <<>>)
            Same(i, key) == KeyFrom(<<>>, leaves[i].path) = key
        IN  /\ SingleLevel(out)
            /\ Keys(out) = {KeyFrom(<<>>, leaves[i].path) : i \in 1..Len(leaves)}
            /\ \A j \in 1..Len(out.items) :
                \E i \in 1..Len(leaves) :
                    /\ Same(i, out.items[j].key)
                    /\ \A k \in (i + 1)..Len(leaves) : ~Same(k, out.items[j].key)
                    /\ out.items[j].val = Rendered(leaves[i].val)
            /\ (/\ \A i \in 1..Len(leaves) : Same(i, PathKey(leaves[i].path))
                /\ \A i, k \in 1..Len(leaves) :
                    PathKey(leaves[i].path) = PathKey(leaves[k].path) => i = k) =>
                Len(out.items) = Len(leaves)
            /\ arg.d = FlattenExample => out = FlattenedExample

\* C11: flatten_dict was given {"a.b": 1, "a": {"b": 2}} and returned
\* {"a.b": 2}: the leaf 1 is gone.
C11_CollisionSeen ==
    /\ op = "flatten_dict"
    /\ arg.d = Dict(<< Item(<<"a", ".", "b">>, Num(Big(0, 1))),
                       Item(<<"a">>, Dict(<<Item(<<"b">>, Num(Big(0, 2)))>>)) >>)
    /\ ret.value = Dict(<<Item(<<"a", ".", "b">>, Num(Big(0, 2)))>>)

=============================================================================
